---- MODULE Spec2Model ----
(***************************************************************************)
(* Model of multiclou.py: the sequential notebook / permission sync        *)
(* between two workspaces.  One behaviour of Spec is one run of            *)
(* sync_notebooks_and_permissions; a step is one stage of the function     *)
(* with the client calls it makes, and what the remote side answers to     *)
(* each request is chosen with \E.                                         *)
(*                                                                         *)
(* Strings the code inspects character by character (provider names,       *)
(* workspace URLs) are sequences of one-character strings.  Python's None  *)
(* is the token "<None>" where the value is otherwise a string, and a      *)
(* tagged record where the value is otherwise a dict.                      *)
(***************************************************************************)
EXTENDS Integers, Sequences, FiniteSets, TLC

VARIABLES
    source_cloud,        \* argument of sync_notebooks_and_permissions
    target_cloud,        \* argument
    git_url,             \* argument
    cluster_id,          \* argument
    pc,                  \* position of the run inside sync_notebooks_and_permissions
    source_config,       \* local of sync
    target_config,       \* local of sync
    source_permissions,  \* local of sync: result of get_permissions on the source
    target_permissions,  \* local of sync: result of get_permissions on the target
    source_notebooks,    \* local of sync: result of list_notebooks
    idx,                 \* position of "for nb in source_notebooks"
    gi,                  \* position of "for user, permission_level in source_permissions.items()"
    git_exit,            \* exit status of "git clone", NotRun if it was not started
    list_calls,          \* number of workspace/list requests
    calls,               \* HTTP requests sent so far
    grants,              \* invocations of grant_permissions so far (arguments)
    exported,            \* per listing position: outcome of export_notebook
    imported,            \* per listing position: outcome of import_notebook
    error,               \* uncaught exception that ended the run, "" if none
    acl,                 \* access_control_list being flattened by get_permissions
    ai,                  \* position of "for item in acl"
    user_permissions     \* dict built by get_permissions

vars == <<source_cloud, target_cloud, git_url, cluster_id, pc,
          source_config, target_config, source_permissions, target_permissions,
          source_notebooks, idx, gi, git_exit, list_calls, calls, grants, exported,
          imported, error, acl, ai, user_permissions>>

(***************************************************************************)
(* Bounds of the model.                                                    *)
(***************************************************************************)
MaxObjects == 2     \* longest listing returned by workspace/list
MaxAcl == 2         \* longest access_control_list given to the flattening

(***************************************************************************)
(* Strings.                                                                *)
(***************************************************************************)
None == "<None>"

AWS == <<"A", "W", "S">>
AZURE == <<"A", "Z", "U", "R", "E">>
GCP == <<"G", "C", "P">>

in_aws == <<"a", "w", "s">>
in_Azure == <<"A", "z", "u", "r", "e">>
in_oci == <<"o", "c", "i">>

in_gcp == <<"g", "c", "p">>

\* what the operator types at the two provider prompts
SourceCloudInputs == {in_aws, in_gcp, in_oci}
TargetCloudInputs == {in_aws, in_Azure, GCP, in_oci}

DATABRICKS_COM == <<"d", "a", "t", "a", "b", "r", "i", "c", "k", "s", ".", "c", "o", "m">>
HTTP == <<"h", "t", "t", "p", ":", "/", "/">>
HTTPS == <<"h", "t", "t", "p", "s", ":", "/", "/">>

UrlAws == <<"h", "t", "t", "p", "s", ":", "/", "/", "a", ".", "d", "a", "t", "a", "b", "r", "i", "c", "k", "s", ".", "c", "o", "m">>
UrlAzure == <<"h", "t", "t", "p", "s", ":", "/", "/", "a", ".", "a", "z", "u", "r", "e", "d", "a", "t", "a", "b", "r", "i", "c", "k", "s", ".", "n", "e", "t">>
\* os.getenv of a variable that is not set: None, formatted as "None" by the f-strings
UrlNone == <<None>>

UpperChar(c) ==
    CASE c = "a" -> "A" [] c = "c" -> "C" [] c = "e" -> "E" [] c = "g" -> "G"
      [] c = "i" -> "I" [] c = "o" -> "O" [] c = "p" -> "P" [] c = "r" -> "R"
      [] c = "s" -> "S" [] c = "u" -> "U" [] c = "w" -> "W" [] c = "z" -> "Z"
      [] OTHER -> c

\* str.upper()
Upper(s) == [i \in DOMAIN s |-> UpperChar(s[i])]

\* the Python expression  needle in hay
Contains(needle, hay) ==
    \E i \in 1..(Len(hay) - Len(needle) + 1) :
        SubSeq(hay, i, i + Len(needle) - 1) = needle

StartsWith(prefix, s) ==
    /\ Len(s) >= Len(prefix)
    /\ SubSeq(s, 1, Len(prefix)) = prefix

\* requests raises MissingSchema (a RequestException) before sending anything
\* when the URL built from workspace_url has no scheme
Sendable(workspace_url) ==
    StartsWith(HTTP, workspace_url) \/ StartsWith(HTTPS, workspace_url)

\* truth value of a str-or-None argument
Truthy(s) == s \notin {None, ""}

(***************************************************************************)
(* Configuration resolver.                                                 *)
(***************************************************************************)
NoConfig == [found |-> FALSE, url |-> UrlNone, token |-> None]

\* lines 11-24, in an environment that sets the AWS and AZURE variables and
\* leaves GCP_WORKSPACE_URL and GCP_ACCESS_TOKEN unset
WORKSPACE_CONFIG ==
    [k \in {AWS, AZURE, GCP} |->
        [found |-> TRUE,
         url |-> (CASE k = AWS -> UrlAws [] k = AZURE -> UrlAzure [] OTHER -> UrlNone),
         token |-> (IF k = GCP THEN None ELSE "tok")]]

get_workspace_config_no_upper(table, cloud_provider) ==
    IF cloud_provider \in DOMAIN table THEN table[cloud_provider] ELSE NoConfig

get_workspace_config(table, cloud_provider) ==
    IF Upper(cloud_provider) \in DOMAIN table
    THEN table[Upper(cloud_provider)]
    ELSE NoConfig

(***************************************************************************)
(* Git seeding.                                                            *)
(***************************************************************************)
GitExitCodes == {0, 128}
NotRun == -1

pull_notebooks_from_git_ignore(rc) == TRUE

\* return value of pull_notebooks_from_git when "git clone" exits with rc
pull_notebooks_from_git(rc) == rc = 0

(***************************************************************************)
(* JSON values.  A key that a dict does not carry has the value Absent;    *)
(* a Python dict that is written to is a sequence of key/value records in  *)
(* insertion order, each key once.                                         *)
(***************************************************************************)
Absent == "<absent>"

\* d.get(key, default), given the value stored under key (Absent if none)
Get(value, default) == IF value = Absent THEN default ELSE value

DictKeys(d) == {d[i].key : i \in DOMAIN d}

\* d[k]
DictAt(d, k) == (CHOOSE i \in DOMAIN d : d[i].key = k)

DictValue(d, k) == d[DictAt(d, k)].value

\* d[k] = v
DictSet(d, k, v) ==
    IF k \in DictKeys(d)
    THEN [d EXCEPT ![DictAt(d, k)] = [key |-> k, value |-> v]]
    ELSE Append(d, [key |-> k, value |-> v])

(***************************************************************************)
(* Permission mapper: the loop body of get_permissions.                    *)
(* An access-control entry is                                              *)
(*   [user_name, all_permissions, permission_level]                        *)
(* where all_permissions is the nested array (<<>> when the key is missing *)
(* or the array is empty, which item.get("all_permissions", []) does not   *)
(* tell apart) of records [permission_level].                              *)
(***************************************************************************)
Users == {"alice", "bob"}

NestedArrays ==
    { <<>>,
      <<[permission_level |-> Absent]>>,
      <<[permission_level |-> "CAN_MANAGE"]>>,
      <<[permission_level |-> "CAN_RUN"], [permission_level |-> "CAN_MANAGE"]>> }

AclEntries ==
    [user_name : Users \cup {Absent},
     all_permissions : NestedArrays,
     permission_level : {Absent, "CAN_READ"}]

\* lines 132-136
PermissionLevel(item) ==
    IF item.all_permissions # <<>>
    THEN Get(item.all_permissions[1].permission_level, "UNKNOWN")
    ELSE Get(item.permission_level, "UNKNOWN")

FlattenItem_first_wins(d, item) ==
    IF Get(item.user_name, None) \in DictKeys(d)
    THEN d
    ELSE DictSet(d, Get(item.user_name, None), PermissionLevel(item))

\* lines 130-137: one iteration of "for item in acl"
FlattenItem(d, item) ==
    DictSet(d, Get(item.user_name, None), PermissionLevel(item))

RECURSIVE FlattenFrom(_, _, _)
FlattenFrom(d, list, i) ==
    IF i > Len(list) THEN d ELSE FlattenFrom(FlattenItem(d, list[i]), list, i + 1)

\* lines 127-139: the whole loop
Flatten(list) == FlattenFrom(<<>>, list, 1)

(***************************************************************************)
(* Workspace API client.                                                   *)
(***************************************************************************)
NOTEBOOK_DIR == 0        \* the configured directory; listed objects have paths 1, 2, ...

\* one invocation of requests.get / post / put / patch
Call(ws, op, method, path, kind, body) ==
    [ws |-> ws, op |-> op, method |-> method, path |-> path, kind |-> kind, body |-> body]

\* what workspace/get-status answers for a path: a transport or HTTP error, an
\* empty JSON object, or an object with or without an object_type; the configured
\* directory is a directory where it exists, the path of a listed notebook names a
\* notebook, and LIBRARY stands for every type the code has no endpoint for
StatusAnswers(path) ==
    {"error", "empty", "LIBRARY", "no_type"}
        \cup (IF path = NOTEBOOK_DIR THEN {"DIRECTORY"} ELSE {"NOTEBOOK"})

\* get_object_status: None on error, else the parsed body
get_object_status(workspace_url, answer) ==
    IF ~Sendable(workspace_url) \/ answer = "error"
    THEN [is_none |-> TRUE, empty |-> TRUE, object_type |-> None]
    ELSE [is_none |-> FALSE,
          empty |-> (answer = "empty"),
          object_type |-> (IF answer \in {"empty", "no_type"} THEN None ELSE answer)]

\* "not object_status"
Falsy(object_status) == object_status.is_none \/ object_status.empty

\* lines 113-119 and 154-160: "" when the type is unsupported
Endpoint(object_type) ==
    CASE object_type = "NOTEBOOK" -> "notebooks"
      [] object_type = "DIRECTORY" -> "directories"
      [] OTHER -> ""

\* the access-control lists a permissions endpoint answers with in the runs of Spec
AclSamples ==
    { <<>>,
      <<[user_name |-> "alice", all_permissions |-> <<>>, permission_level |-> "CAN_READ"],
        [user_name |-> "bob", all_permissions |-> <<[permission_level |-> "CAN_RUN"]>>,
         permission_level |-> Absent],
        [user_name |-> "alice", all_permissions |-> <<[permission_level |-> "CAN_MANAGE"]>>,
         permission_level |-> "CAN_READ"]>> }

PermissionAnswers == {[ok |-> FALSE, list |-> <<>>]} \cup [ok : {TRUE}, list : AclSamples]

NonePermissions == [is_none |-> TRUE, items |-> <<>>]

\* get_permissions: the result, the requests made and the list that was flattened
get_permissions(ws, workspace_url, path, st, answer) ==
    LET object_status == get_object_status(workspace_url, st)
        status_call == Call(ws, "get-status", "GET", path, "", <<>>)
        kind == Endpoint(object_status.object_type)
    IN  IF Falsy(object_status) \/ kind = ""
        THEN [result |-> NonePermissions, calls |-> {status_call}, list |-> <<>>]
        ELSE IF ~answer.ok
        THEN [result |-> NonePermissions,
              calls |-> {status_call, Call(ws, "get-permissions", "GET", path, kind, <<>>)},
              list |-> <<>>]
        ELSE [result |-> [is_none |-> FALSE, items |-> Flatten(answer.list)],
              calls |-> {status_call, Call(ws, "get-permissions", "GET", path, kind, <<>>)},
              list |-> answer.list]

\* truth value of a dict-or-None
HasPermissions(p) == ~p.is_none /\ p.items # <<>>

Method_swapped(workspace_url) ==
    IF Contains(DATABRICKS_COM, workspace_url) THEN "PUT" ELSE "PATCH"

\* line 178
Method(workspace_url) ==
    IF Contains(DATABRICKS_COM, workspace_url) THEN "PATCH" ELSE "PUT"

GrantBody_always_attach(email, permission_level, cluster) ==
    <<[user_name |-> email, permission_level |-> permission_level, cluster_id |-> Absent],
      [user_name |-> email, permission_level |-> "CAN_ATTACH_TO", cluster_id |-> cluster]>>

\* lines 162-176: the access_control_list of the request body
GrantBody(email, permission_level, cluster) ==
    <<[user_name |-> email, permission_level |-> permission_level, cluster_id |-> Absent]>>
    \o (IF Truthy(cluster)
        THEN <<[user_name |-> email, permission_level |-> "CAN_ATTACH_TO", cluster_id |-> cluster]>>
        ELSE <<>>)

\* grant_permissions: the return value, the requests made and why it returned
grant_permissions(workspace_url, path, email, permission_level, cluster, st, http_ok) ==
    LET object_status == get_object_status(workspace_url, st)
        status_call == Call("target", "get-status", "GET", path, "", <<>>)
        kind == Endpoint(object_status.object_type)
    IN  IF Falsy(object_status)
        THEN [ret |-> FALSE, calls |-> {status_call}, outcome |-> "status_not_found"]
        ELSE IF kind = ""
        THEN [ret |-> FALSE, calls |-> {status_call}, outcome |-> "unsupported_type"]
        ELSE [ret |-> http_ok,
              calls |-> {status_call,
                         Call("target", "grant", Method(workspace_url), path, kind,
                              GrantBody(email, permission_level, cluster))},
              outcome |-> (IF http_ok THEN "granted" ELSE "request_failed")]

\* what workspace/list answers: the objects of the body, at most MaxObjects of them;
\* an object is [path, object_type], object_type Absent when the key is missing
ObjectTypes == {"NOTEBOOK", "DIRECTORY", Absent}

Listings ==
    UNION { [1..n -> ObjectTypes] : n \in 0..MaxObjects }

ObjectsOf(types) == [i \in DOMAIN types |-> [path |-> i, object_type |-> types[i]]]

\* list_notebooks: [] on error, else the objects
list_notebooks(workspace_url, ok, types) ==
    IF ~Sendable(workspace_url) \/ ~ok THEN <<>> ELSE ObjectsOf(types)

\* what workspace/export answers: an error, or a body whose "content" is one of
\* these (Absent: the body has no such key)
ExportContents == {"cHJpbnQoMSk=", "", "abc", Absent}

\* base64.b64decode(...).decode("utf-8") on the answers above
B64Decode(text) ==
    CASE text = "cHJpbnQoMSk=" -> [raised |-> "", value |-> "print(1)"]
      [] text = "" -> [raised |-> "", value |-> ""]
      [] OTHER -> [raised |-> "binascii.Error", value |-> None]

\* export_notebook: the text, None on a RequestException, or the exception that
\* leaves the function
export_notebook(workspace_url, ok, text) ==
    IF ~Sendable(workspace_url) \/ ~ok
    THEN [raised |-> "", value |-> None]
    ELSE IF text = Absent
    THEN [raised |-> "KeyError", value |-> None]
    ELSE B64Decode(text)

IsNotebook_any(nb) == TRUE

\* line 225, for an object that has the key
IsNotebook(nb) == nb.object_type = "NOTEBOOK"

\* line 227
ExportSucceeded(text) == text # None

(***************************************************************************)
(* The run.                                                                *)
(***************************************************************************)
GitUrls == {"", "git@github.com:org/notebooks.git"}
ClusterIds == {"", "0101-abc"}

Init ==
    /\ source_cloud \in SourceCloudInputs
    /\ target_cloud \in TargetCloudInputs
    /\ git_url \in GitUrls
    /\ cluster_id \in ClusterIds
    /\ pc = "start"
    /\ source_config = NoConfig
    /\ target_config = NoConfig
    /\ source_permissions = NonePermissions
    /\ target_permissions = NonePermissions
    /\ source_notebooks = <<>>
    /\ idx = 0
    /\ gi = 0
    /\ git_exit = NotRun
    /\ list_calls = 0
    /\ calls = {}
    /\ grants = {}
    /\ exported = <<>>
    /\ imported = <<>>
    /\ error = ""
    /\ acl = <<>>
    /\ ai = 0
    /\ user_permissions = <<>>

\* lines 200-205
ResolveConfigs ==
    /\ pc = "start"
    /\ source_config' = get_workspace_config(WORKSPACE_CONFIG, source_cloud)
    /\ target_config' = get_workspace_config(WORKSPACE_CONFIG, target_cloud)
    /\ pc' = IF ~source_config'.found \/ ~target_config'.found THEN "aborted" ELSE "git"
    /\ UNCHANGED <<source_cloud, target_cloud, git_url, cluster_id,
                   source_permissions, target_permissions, source_notebooks, idx, gi,
                   git_exit, list_calls, calls, grants, exported, imported,
                   error, acl, ai, user_permissions>>

\* lines 208-210
PullFromGit ==
    /\ pc = "git"
    /\ IF Truthy(git_url)
       THEN \E rc \in GitExitCodes :
                /\ git_exit' = rc
                /\ pc' = IF pull_notebooks_from_git(rc) THEN "source_permissions" ELSE "aborted"
       ELSE /\ git_exit' = git_exit
            /\ pc' = "source_permissions"
    /\ UNCHANGED <<source_cloud, target_cloud, git_url, cluster_id,
                   source_config, target_config, source_permissions, target_permissions,
                   source_notebooks, idx, gi, list_calls, calls, grants, exported,
                   imported, error, acl, ai, user_permissions>>

\* lines 213-220
SourcePermissions ==
    /\ pc = "source_permissions"
    /\ \E st \in StatusAnswers(NOTEBOOK_DIR), answer \in PermissionAnswers :
         LET r == get_permissions("source", source_config.url, NOTEBOOK_DIR, st, answer)
         IN  /\ source_permissions' = r.result
             /\ calls' = calls \cup r.calls
             /\ acl' = r.list
             /\ ai' = Len(r.list) + 1
             /\ user_permissions' = r.result.items
    /\ pc' = "list"
    /\ UNCHANGED <<source_cloud, target_cloud, git_url, cluster_id,
                   source_config, target_config, target_permissions, source_notebooks,
                   idx, gi, git_exit, list_calls, grants, exported, imported, error>>

\* line 223
ListNotebooks ==
    /\ pc = "list"
    /\ \E ok \in BOOLEAN, types \in Listings :
         source_notebooks' = list_notebooks(source_config.url, ok, types)
    /\ calls' = calls \cup {Call("source", "list", "GET", NOTEBOOK_DIR, "", <<>>)}
    /\ exported' = [i \in DOMAIN source_notebooks' |-> "not_called"]
    /\ imported' = [i \in DOMAIN source_notebooks' |-> "not_called"]
    /\ list_calls' = list_calls + 1
    /\ idx' = 1
    /\ pc' = "loop"
    /\ UNCHANGED <<source_cloud, target_cloud, git_url, cluster_id,
                   source_config, target_config, source_permissions, target_permissions,
                   gi, git_exit, grants, error, acl, ai,
                   user_permissions>>

\* line 224, the list is exhausted
LoopExit ==
    /\ pc = "loop"
    /\ idx > Len(source_notebooks)
    /\ pc' = "target_permissions"
    /\ UNCHANGED <<source_cloud, target_cloud, git_url, cluster_id,
                   source_config, target_config, source_permissions, target_permissions,
                   source_notebooks, idx, gi, git_exit, list_calls, calls, grants, exported,
                   imported, error, acl, ai, user_permissions>>

\* line 225, nb["object_type"] of an object without the key
ObjectTypeMissing ==
    /\ pc = "loop"
    /\ idx <= Len(source_notebooks)
    /\ source_notebooks[idx].object_type = Absent
    /\ error' = "KeyError"
    /\ pc' = "crashed"
    /\ UNCHANGED <<source_cloud, target_cloud, git_url, cluster_id,
                   source_config, target_config, source_permissions, target_permissions,
                   source_notebooks, idx, gi, git_exit, list_calls, calls, grants, exported,
                   imported, acl, ai, user_permissions>>

\* line 225, the object is not a notebook
SkipObject ==
    /\ pc = "loop"
    /\ idx <= Len(source_notebooks)
    /\ source_notebooks[idx].object_type # Absent
    /\ ~IsNotebook(source_notebooks[idx])
    /\ idx' = idx + 1
    /\ UNCHANGED <<source_cloud, target_cloud, git_url, cluster_id, pc,
                   source_config, target_config, source_permissions, target_permissions,
                   source_notebooks, gi, git_exit, list_calls, calls, grants, exported,
                   imported, error, acl, ai, user_permissions>>

\* import_notebook: the request it makes and whether it logged success
import_notebook(workspace_url, ok, path) ==
    [calls |-> {Call("target", "import", "POST", path, "", <<>>)},
     logged |-> IF Sendable(workspace_url) /\ ok THEN "ok" ELSE "failed"]

GrantAfterImport_only_if_imported(logged, permissions) ==
    logged = "ok" /\ HasPermissions(permissions)

\* line 231: import_notebook returns nothing, only the captured mapping is tested
GrantAfterImport(logged, permissions) == HasPermissions(permissions)

\* lines 226-231: export, and import of what was exported
ExportAndImport ==
    /\ pc = "loop"
    /\ idx <= Len(source_notebooks)
    /\ source_notebooks[idx].object_type # Absent
    /\ IsNotebook(source_notebooks[idx])
    /\ \E ok \in BOOLEAN, text \in ExportContents, import_ok \in BOOLEAN :
         LET path == source_notebooks[idx].path
             export_call == Call("source", "export", "GET", path, "", <<>>)
             content == export_notebook(source_config.url, ok, text)
             import == import_notebook(target_config.url, import_ok, path)
         IN  IF content.raised # ""
             THEN /\ error' = content.raised
                  /\ pc' = "crashed"
                  /\ exported' = [exported EXCEPT ![idx] = "raised"]
                  /\ calls' = calls \cup {export_call}
                  /\ UNCHANGED <<idx, gi, imported>>
             ELSE IF ExportSucceeded(content.value)
             THEN /\ exported' = [exported EXCEPT ![idx] = "text"]
                  /\ imported' = [imported EXCEPT ![idx] = import.logged]
                  /\ calls' = calls \cup {export_call} \cup import.calls
                  /\ error' = error
                  /\ IF GrantAfterImport(import.logged, source_permissions)
                     THEN pc' = "grant" /\ gi' = 1 /\ idx' = idx
                     ELSE pc' = "loop" /\ gi' = gi /\ idx' = idx + 1
             ELSE /\ exported' = [exported EXCEPT ![idx] = "none"]
                  /\ calls' = calls \cup {export_call}
                  /\ pc' = "loop"
                  /\ idx' = idx + 1
                  /\ UNCHANGED <<gi, imported, error>>
    /\ UNCHANGED <<source_cloud, target_cloud, git_url, cluster_id, source_config,
                   target_config, source_permissions, target_permissions,
                   source_notebooks, git_exit, list_calls, grants, acl, ai,
                   user_permissions>>

\* lines 232-233, one iteration
GrantPermissions ==
    /\ pc = "grant"
    /\ LET item == source_permissions.items[gi]
           path == source_notebooks[idx].path
       IN  /\ grants' = grants \cup {[path |-> path, user |-> item.key, level |-> item.value,
                                      cluster_id |-> cluster_id]}
           /\ \E st \in StatusAnswers(path), http_ok \in BOOLEAN :
                LET r == grant_permissions(target_config.url, path, item.key, item.value,
                                           cluster_id, st, http_ok)
                IN  calls' = calls \cup r.calls
    /\ IF gi < Len(source_permissions.items)
       THEN gi' = gi + 1 /\ pc' = "grant" /\ idx' = idx
       ELSE gi' = gi /\ pc' = "loop" /\ idx' = idx + 1
    /\ UNCHANGED <<source_cloud, target_cloud, git_url, cluster_id,
                   source_config, target_config, source_permissions, target_permissions,
                   source_notebooks, git_exit, list_calls, exported, imported, error, acl, ai,
                   user_permissions>>

\* lines 236-245
TargetPermissions ==
    /\ pc = "target_permissions"
    /\ \E st \in StatusAnswers(NOTEBOOK_DIR), answer \in PermissionAnswers :
         LET r == get_permissions("target", target_config.url, NOTEBOOK_DIR, st, answer)
         IN  /\ target_permissions' = r.result
             /\ calls' = calls \cup r.calls
             /\ acl' = r.list
             /\ ai' = Len(r.list) + 1
             /\ user_permissions' = r.result.items
    /\ pc' = "done"
    /\ UNCHANGED <<source_cloud, target_cloud, git_url, cluster_id,
                   source_config, target_config, source_permissions, source_notebooks,
                   idx, gi, git_exit, list_calls, grants, exported, imported, error>>

Next ==
    \/ ResolveConfigs
    \/ PullFromGit
    \/ SourcePermissions
    \/ ListNotebooks
    \/ LoopExit
    \/ ObjectTypeMissing
    \/ SkipObject
    \/ ExportAndImport
    \/ GrantPermissions
    \/ TargetPermissions

Spec == Init /\ [][Next]_vars

TypeOK ==
    /\ pc \in {"start", "aborted", "git", "source_permissions", "list", "loop",
               "grant", "target_permissions", "done", "crashed"}
    /\ idx \in 0..(MaxObjects + 1)
    /\ git_exit \in GitExitCodes \cup {NotRun}
    /\ list_calls \in 0..1

(***************************************************************************)
(* The flattening loop of get_permissions on its own: SpecFlatten starts   *)
(* with any access_control_list of at most MaxAcl entries and runs         *)
(* "for item in acl" one iteration per step.                               *)
(***************************************************************************)
AclInputs == UNION { [1..n -> AclEntries] : n \in 0..MaxAcl }

InitFlatten ==
    /\ source_cloud = in_aws
    /\ target_cloud = in_Azure
    /\ git_url = ""
    /\ cluster_id = ""
    /\ pc = "flatten"
    /\ source_config = NoConfig
    /\ target_config = NoConfig
    /\ source_permissions = NonePermissions
    /\ target_permissions = NonePermissions
    /\ source_notebooks = <<>>
    /\ idx = 0
    /\ gi = 0
    /\ git_exit = NotRun
    /\ list_calls = 0
    /\ calls = {}
    /\ grants = {}
    /\ exported = <<>>
    /\ imported = <<>>
    /\ error = ""
    /\ acl \in AclInputs
    /\ ai = 1
    /\ user_permissions = <<>>

\* lines 129-137
FlattenLoop ==
    /\ pc = "flatten"
    /\ ai <= Len(acl)
    /\ user_permissions' = FlattenItem(user_permissions, acl[ai])
    /\ ai' = ai + 1
    /\ UNCHANGED <<source_cloud, target_cloud, git_url, cluster_id, pc, source_config,
                   target_config, source_permissions, target_permissions,
                   source_notebooks, idx, gi, git_exit, list_calls, calls,
                   grants, exported, imported, error, acl>>

\* line 139
FlattenReturn ==
    /\ pc = "flatten"
    /\ ai > Len(acl)
    /\ pc' = "flattened"
    /\ UNCHANGED <<source_cloud, target_cloud, git_url, cluster_id, source_config,
                   target_config, source_permissions, target_permissions,
                   source_notebooks, idx, gi, git_exit, list_calls, calls,
                   grants, exported, imported, error, acl, ai, user_permissions>>

NextFlatten == FlattenLoop \/ FlattenReturn

SpecFlatten == InitFlatten /\ [][NextFlatten]_vars

(***************************************************************************)
(* Vocabulary of the properties.                                           *)
(***************************************************************************)
Terminated == pc \in {"done", "aborted", "crashed"}

\* the run has gone through the listing step
Listed == pc \in {"loop", "grant", "target_permissions", "done", "crashed"}

\* the loop has left listing position i behind
Finished(i) == Listed /\ i \in DOMAIN source_notebooks /\ idx > i

OpsOn(ops) == {c \in calls : c.op \in ops}

GrantRequests == OpsOn({"grant"})

\* the principal/level pairs of the mapping captured at step 3
CapturedPairs ==
    {<<source_permissions.items[i].key, source_permissions.items[i].value>> :
        i \in DOMAIN source_permissions.items}

GrantsAt(i) == {<<g.user, g.level>> : g \in {h \in grants : h.path = i}}

LowerChar(c) ==
    CASE c = "A" -> "a" [] c = "C" -> "c" [] c = "E" -> "e" [] c = "G" -> "g"
      [] c = "P" -> "p" [] c = "R" -> "r" [] c = "S" -> "s" [] c = "U" -> "u"
      [] c = "W" -> "w" [] c = "Z" -> "z" [] OTHER -> c

SameIgnoringCase(a, b) ==
    /\ Len(a) = Len(b)
    /\ \A i \in DOMAIN a : LowerChar(a[i]) = LowerChar(b[i])

Recognized(name) == \E k \in {AWS, AZURE, GCP} : SameIgnoringCase(name, k)

AbortedAtStep1 == pc = "aborted" /\ git_exit = NotRun

(***************************************************************************)
(* C1: when a Git URL is supplied and "git clone" exits non-zero, the run  *)
(* ends there and has issued no workspace request of any kind.             *)
(***************************************************************************)
C1_CloneFailureStopsBeforeApi ==
    (git_exit # NotRun /\ git_exit # 0) =>
        /\ pc = "aborted"
        /\ calls = {}
        /\ grants = {}
        /\ list_calls = 0

C1_Witness ==
    /\ Truthy(git_url)
    /\ git_exit = 128
    /\ pc = "aborted"

(***************************************************************************)
(* C4: the run aborts at step 1, with no clone and no request, exactly     *)
(* when the source or the target name is not AWS, AZURE or GCP up to case; *)
(* a recognized provider whose environment values are missing resolves to  *)
(* a config with empty fields and the run goes on.                         *)
(***************************************************************************)
C4_AbortIffUnrecognized ==
    /\ pc # "start" =>
         (AbortedAtStep1 <=> (~Recognized(source_cloud) \/ ~Recognized(target_cloud)))
    /\ AbortedAtStep1 => (calls = {} /\ list_calls = 0 /\ grants = {})
    /\ (pc # "start" /\ Recognized(source_cloud) /\ Recognized(target_cloud)) =>
         /\ source_config.found /\ target_config.found
         /\ SameIgnoringCase(source_cloud, GCP) =>
              (source_config.url = UrlNone /\ source_config.token = None)
         /\ SameIgnoringCase(target_cloud, GCP) =>
              (target_config.url = UrlNone /\ target_config.token = None)

C4_Witness ==
    /\ AbortedAtStep1
    /\ Truthy(git_url)
    /\ Recognized(source_cloud)
    /\ ~Recognized(target_cloud)

(***************************************************************************)
(* C3: once the loop is past a notebook whose export returned text,        *)
(* grant_permissions has been called for that path with every captured     *)
(* principal/level pair; every grant request names a captured pair, and    *)
(* carries the CAN_ATTACH_TO entry for the same principal and the cluster  *)
(* exactly when a non-empty cluster id was supplied; with no captured      *)
(* permissions there is no grant at all.                                   *)
(***************************************************************************)
C3_GrantsFollowCapturedPermissions ==
    /\ \A i \in DOMAIN source_notebooks :
         (Finished(i) /\ exported[i] = "text" /\ ~source_permissions.is_none) =>
             \A pr \in CapturedPairs :
                 [path |-> i, user |-> pr[1], level |-> pr[2], cluster_id |-> cluster_id]
                     \in grants
    /\ \A c \in GrantRequests :
         /\ <<c.body[1].user_name, c.body[1].permission_level>> \in CapturedPairs
         /\ c.body[1].cluster_id = Absent
         /\ Len(c.body) = (IF cluster_id \in {"", None} THEN 1 ELSE 2)
         /\ Len(c.body) = 2 =>
              c.body[2] = [user_name |-> c.body[1].user_name,
                           permission_level |-> "CAN_ATTACH_TO",
                           cluster_id |-> cluster_id]
    /\ (source_permissions.is_none \/ source_permissions.items = <<>>) =>
         (grants = {} /\ GrantRequests = {})

C3_Witness ==
    /\ pc = "done"
    /\ cluster_id # ""
    /\ \E i \in DOMAIN source_notebooks :
         /\ exported[i] = "text"
         /\ Cardinality(GrantsAt(i)) = 2
         /\ \E c \in GrantRequests : c.path = i /\ Len(c.body) = 2

(***************************************************************************)
(* C6 as stated: the flattened mapping has the user_name values of the     *)
(* list as keys, each mapped to the level of its last entry, the level     *)
(* being the first nested permission_level if the entry carries one, else  *)
(* its top-level permission_level, else "UNKNOWN".                         *)
(***************************************************************************)
LastEntry(list, name) ==
    list[CHOOSE i \in DOMAIN list :
            /\ Get(list[i].user_name, None) = name
            /\ \A j \in DOMAIN list : j > i => Get(list[j].user_name, None) # name]

NamesOf(list) == {Get(list[i].user_name, None) : i \in DOMAIN list}

StatedLevel(item) ==
    IF item.all_permissions # <<>> /\ item.all_permissions[1].permission_level # Absent
    THEN item.all_permissions[1].permission_level
    ELSE IF item.permission_level # Absent
         THEN item.permission_level
         ELSE "UNKNOWN"

C6_FlattenAsStated ==
    pc = "flattened" =>
        /\ DictKeys(user_permissions) = NamesOf(acl)
        /\ \A name \in NamesOf(acl) :
             DictValue(user_permissions, name) = StatedLevel(LastEntry(acl, name))

(***************************************************************************)
(* C6 amended: as above, but an entry whose all_permissions array is       *)
(* non-empty takes its level from the first element alone ("UNKNOWN" when  *)
(* that element has no permission_level, whatever the top-level field      *)
(* says); the top-level permission_level is used only when                 *)
(* all_permissions is missing or empty.                                    *)
(***************************************************************************)
AmendedLevel(item) ==
    CASE Len(item.all_permissions) = 0 /\ item.permission_level = Absent -> "UNKNOWN"
      [] Len(item.all_permissions) = 0 /\ item.permission_level # Absent -> item.permission_level
      [] Len(item.all_permissions) > 0 /\ Head(item.all_permissions).permission_level = Absent
            -> "UNKNOWN"
      [] OTHER -> Head(item.all_permissions).permission_level

C6_FlattenAmended ==
    pc = "flattened" =>
        /\ DictKeys(user_permissions) = NamesOf(acl)
        /\ Cardinality(DictKeys(user_permissions)) = Len(user_permissions)
        /\ \A name \in NamesOf(acl) :
             DictValue(user_permissions, name) = AmendedLevel(LastEntry(acl, name))

C6_Witness ==
    /\ pc = "flattened"
    /\ Len(acl) = 2
    /\ acl[1].user_name = "alice"
    /\ acl[2].user_name = "alice"
    /\ acl[1].all_permissions = <<[permission_level |-> "CAN_MANAGE"]>>
    /\ acl[2].all_permissions = <<[permission_level |-> Absent]>>
    /\ acl[2].permission_level = "CAN_READ"
    /\ user_permissions = <<[key |-> "alice", value |-> "UNKNOWN"]>>

(***************************************************************************)
(* C7: every grant request is a PATCH when the target workspace URL has    *)
(* "databricks.com" in it and a PUT otherwise, goes to the notebooks or    *)
(* the directories permissions endpoint, and no grant is sent with both    *)
(* methods.                                                                *)
(***************************************************************************)
HasDatabricksCom(url) ==
    \E n \in 0..Len(url) :
        /\ n + Len(DATABRICKS_COM) <= Len(url)
        /\ \A k \in 1..Len(DATABRICKS_COM) : url[n + k] = DATABRICKS_COM[k]

C7_GrantMethod ==
    /\ \A c \in GrantRequests :
         /\ HasDatabricksCom(target_config.url) => c.method = "PATCH"
         /\ ~HasDatabricksCom(target_config.url) => c.method = "PUT"
         /\ c.kind \in {"notebooks", "directories"}
    /\ \A c, d \in GrantRequests :
         (c.path = d.path /\ c.body = d.body /\ c.kind = d.kind) => c.method = d.method

C7_Witness ==
    /\ target_config.url = UrlAzure
    /\ \E c \in GrantRequests : c.method = "PUT" /\ c.kind = "notebooks"

(***************************************************************************)
(* C8: export, import and grant only ever concern listed objects of type   *)
(* NOTEBOOK; an object of another type gets none of them; the only list    *)
(* request is the one for the configured directory, sent once.             *)
(***************************************************************************)
C8_FlatNotebookOnly ==
    /\ \A c \in OpsOn({"export", "import", "grant"}) :
         /\ c.path \in DOMAIN source_notebooks
         /\ source_notebooks[c.path].object_type = "NOTEBOOK"
    /\ \A g \in grants :
         /\ g.path \in DOMAIN source_notebooks
         /\ source_notebooks[g.path].object_type = "NOTEBOOK"
    /\ \A i \in DOMAIN source_notebooks :
         source_notebooks[i].object_type # "NOTEBOOK" =>
             /\ exported[i] = "not_called"
             /\ imported[i] = "not_called"
    /\ \A c \in OpsOn({"list"}) : c.path = NOTEBOOK_DIR /\ c.ws = "source"
    /\ list_calls <= 1
    /\ Listed => list_calls = 1

C8_Witness ==
    /\ pc = "done"
    /\ \E i, j \in DOMAIN source_notebooks :
         /\ source_notebooks[i].object_type = "DIRECTORY"
         /\ i < j
         /\ source_notebooks[j].object_type = "NOTEBOOK"
         /\ imported[j] = "ok"

(***************************************************************************)
(* C10: what the import answered changes nothing: once the loop is past a  *)
(* notebook whose export returned text, every captured pair has been       *)
(* granted for it whether its import succeeded or failed, all such         *)
(* notebooks got the same pairs, and the captured mapping stays as it was  *)
(* from the listing on.                                                    *)
(***************************************************************************)
C10_ImportFireAndForget ==
    /\ [](\A i \in DOMAIN source_notebooks :
            (Finished(i) /\ exported[i] = "text") =>
                /\ imported[i] \in {"ok", "failed"}
                /\ GrantsAt(i) = (IF HasPermissions(source_permissions)
                                  THEN CapturedPairs ELSE {}))
    /\ [][(pc \in {"list", "loop", "grant", "target_permissions"})
             => (source_permissions' = source_permissions)]_vars

C10_Witness ==
    /\ pc = "done"
    /\ \E i, j \in DOMAIN source_notebooks :
         /\ imported[i] = "failed"
         /\ imported[j] = "ok"
         /\ GrantsAt(i) = CapturedPairs
         /\ GrantsAt(j) = CapturedPairs
         /\ Cardinality(CapturedPairs) = 2

(***************************************************************************)
(* C2: a notebook whose export fails is not imported and not granted, and  *)
(* the run goes on: every later notebook is exported and the run reaches   *)
(* the final target-permissions step.                                      *)
(***************************************************************************)
C2_ExportFailureIsolated ==
    \A i \in DOMAIN source_notebooks :
        exported[i] \in {"none", "raised"} =>
            /\ imported[i] = "not_called"
            /\ GrantsAt(i) = {}
            /\ pc # "crashed"
            /\ Terminated =>
                 /\ pc = "done"
                 /\ \A j \in DOMAIN source_notebooks :
                      (j > i /\ source_notebooks[j].object_type = "NOTEBOOK") =>
                          exported[j] # "not_called"

(***************************************************************************)
(* C5: past the provider check and the Git seeding no error leaves the     *)
(* run: it never ends in an uncaught exception.                            *)
(***************************************************************************)
C5_NoCrashPastSeeding ==
    /\ pc # "crashed"
    /\ error = ""

(***************************************************************************)
(* C9: a grant that fails before its request is sent does not stop the     *)
(* run: when the run has ended, the remaining principals of that notebook  *)
(* have been granted and every later notebook has been processed, its      *)
(* export having returned.                                                 *)
(***************************************************************************)
FailedBeforeSending(g) ==
    ~\E c \in GrantRequests : c.path = g.path /\ c.body[1].user_name = g.user

C9_GrantFailureIsolated ==
    \A g \in grants :
        (FailedBeforeSending(g) /\ Terminated) =>
            /\ GrantsAt(g.path) = CapturedPairs
            /\ \A j \in DOMAIN source_notebooks :
                 (j > g.path /\ source_notebooks[j].object_type = "NOTEBOOK") =>
                     exported[j] \in {"text", "none"}

====
